---- MODULE Spec2Model ----
(***************************************************************************)
(* Model of the Mu editor modes for MicroPython boards:                    *)
(*   src/mu/modes/pixelkit.py    DeviceFlasher, FileManager, PixelKitMode  *)
(*   src/mu/modes/micropython.py MicroPythonMode                           *)
(*                                                                         *)
(* The UI thread runs one handler at a time (a handler never yields to the *)
(* event loop: time.sleep blocks it), so every handler is one action.      *)
(* Worker threads (DeviceFlasher, the FileManager's QThread) advance one   *)
(* blocking call at a time and talk to the UI thread only through queued   *)
(* signals, which the UI thread delivers in the order they were emitted.   *)
(***************************************************************************)
EXTENDS Integers, Sequences, FiniteSets, TLC

VARIABLES
    mode,            \* the class instantiated: "pixelkit" or "micropython"
    force_interrupt, \* the class attribute force_interrupt of that class
    ui,              \* the mode object and the view it drives (fields below)
    call,            \* the last handler the UI thread ran: its inputs, the state it
                     \* started from and what it did on view.serial
    threads,         \* the DeviceFlasher threads started so far, by job number
    signals,         \* signals emitted by DeviceFlasher threads, queued for the UI thread
    fm               \* the FileManager objects created so far, each in its own QThread

vars == <<mode, force_interrupt, ui, call, threads, signals, fm>>

(***************************************************************************)
(* Bounds of the model.                                                    *)
(***************************************************************************)
MaxLen == 2        \* longest text of the current tab, in characters
MaxJobs == 2       \* DeviceFlasher threads started in one behaviour
MaxOut == 2        \* lines (erase) or bytes (write) the tool prints in one stage
MaxFs == 2         \* FileManager objects created in one behaviour
MaxOps == 2        \* operations invoked on one FileManager

(***************************************************************************)
(* Program constants.                                                      *)
(***************************************************************************)
CTRL_A == 1        \* b'\x01', enter raw REPL
CTRL_B == 2        \* b'\x02', leave raw REPL
CTRL_C == 3        \* b'\x03', keyboard interrupt
CTRL_D == 4        \* b'\x04', execute
SettleMs == 10     \* sleep(0.01)
AsciiLimit == 128  \* the 'ascii' codec encodes code points below 128 only
CR == 13           \* b'\r'
LF == 10           \* b'\n'

Modes == {"pixelkit", "micropython"}

\* The code points a tab's text is made of: 'p' (ASCII) and U+00E9 (not ASCII).
Chars == {112, 233}

RECURSIVE SeqsUpTo(_, _)
SeqsUpTo(S, n) ==
    IF n = 0 THEN {<<>>}
    ELSE LET shorter == SeqsUpTo(S, n - 1)
         IN shorter \cup {Append(s, c) : s \in shorter, c \in S}

Sources == SeqsUpTo(Chars, MaxLen)

\* view.current_tab: None (tab = FALSE) or a tab holding a text.
Tabs == {[tab |-> FALSE, text |-> <<>>]} \cup {[tab |-> TRUE, text |-> S] : S \in Sources}

(***************************************************************************)
(* Buttons.  set_buttons of the base class enables or disables         *)
(* the named buttons that the mode's button bar holds and ignores the      *)
(* other names.                                                            *)
(***************************************************************************)
ButtonsOf(m) ==
    IF m = "pixelkit" THEN {"run", "stop", "mpfiles", "repl", "mpflash"}
    ELSE {"serial", "run", "stop"}

set_buttons(u, kw) ==
    [u EXCEPT !.buttons =
        [b \in DOMAIN u.buttons |-> IF b \in DOMAIN kw THEN kw[b] ELSE u.buttons[b]]]

\* view.show_message: a modal dialog; it is dismissed before the handler goes
\* on and leaves nothing behind in the mode or the view.
show_message(u, msg) == u

\* A status-bar or progress message: what it names and the tool's line it quotes.
Msg(stage, text) == [stage |-> stage, text |-> text]
NoStatus == Msg("", <<>>)

show_status_message(u, msg) == [u EXCEPT !.status = msg]

(***************************************************************************)
(* toggle_repl of the base class: with a REPL, remove it (the view closes  *)
(* the serial link unless the plotter still uses it); without one, look    *)
(* for a device and, if one is found and the port opens, open the link     *)
(* and the REPL.  `found` is whether a device was found and opened.        *)
(***************************************************************************)
base_toggle_repl(u, found) ==
    IF u.repl
    THEN [u EXCEPT !.repl = FALSE, !.serial = u.plotter]
    ELSE IF found
         THEN [u EXCEPT !.repl = TRUE, !.serial = TRUE]
         ELSE show_message(u, "Could not find an attached device.")

(***************************************************************************)
(* PixelKitMode.toggle_repl                                                *)
(***************************************************************************)
toggle_repl(u, found) ==
    IF u.fs = 0
    THEN LET u1 == base_toggle_repl(u, found)
         IN IF u1.repl
            THEN set_buttons(u1, [mpflash |-> FALSE, mpfiles |-> FALSE,
                                  run |-> TRUE, stop |-> TRUE])
            ELSE IF ~(u1.repl \/ u1.plotter)
                 THEN set_buttons(u1, [mpflash |-> TRUE, mpfiles |-> TRUE,
                                       run |-> TRUE, stop |-> TRUE])
                 ELSE u1
    ELSE show_message(u, "REPL and file system cannot work at the same time.")

(***************************************************************************)
(* What one handler call does on view.serial: the writes and the sleeps,   *)
(* in order, and the exception that ended the call ("none" if it           *)
(* returned).  serial.write raises IOError when the link is lost: failAt   *)
(* is the number of the write of this call that fails (0: none does).      *)
(***************************************************************************)
Frame0 == [io |-> <<>>, raised |-> "none"]

WriteEv(data) == [k |-> "write", data |-> data]
SleepEv == [k |-> "sleep", data |-> <<SettleMs>>]

NumWrites(io) == Cardinality({i \in 1..Len(io) : io[i].k = "write"})

serial_write(fr, data, failAt) ==
    IF fr.raised # "none" THEN fr
    ELSE IF NumWrites(fr.io) + 1 = failAt THEN [fr EXCEPT !.raised = "IOError"]
    ELSE [fr EXCEPT !.io = Append(@, WriteEv(data))]

sleep(fr) ==
    IF fr.raised # "none" THEN fr ELSE [fr EXCEPT !.io = Append(@, SleepEv)]

IsAscii(S) == \A i \in 1..Len(S) : S[i] < AsciiLimit

\* bytes(code, 'ascii') followed by serial.write of the bytes: a text with a
\* code point the codec cannot encode raises UnicodeEncodeError before the write.
write_code(fr, S, failAt) ==
    IF fr.raised # "none" THEN fr
    ELSE IF ~IsAscii(S) THEN [fr EXCEPT !.raised = "UnicodeEncodeError"]
    ELSE serial_write(fr, [i \in 1..Len(S) |-> S[i]], failAt)

(***************************************************************************)
(* PixelKitMode.enterRawRepl, exitRawRepl, run, stop                       *)
(***************************************************************************)
enterRawRepl(fr, failAt) == sleep(serial_write(fr, <<CTRL_A>>, failAt))

\* A variant of exitRawRepl that leaves raw mode before executing.
exitRawRepl_swapped(fr, failAt) ==
    sleep(serial_write(sleep(serial_write(fr, <<CTRL_B>>, failAt)), <<CTRL_D>>, failAt))

exitRawRepl(fr, failAt) ==
    sleep(serial_write(sleep(serial_write(fr, <<CTRL_D>>, failAt)), <<CTRL_B>>, failAt))

run(u, t, found, failAt) ==
    LET u1 == IF ~u.repl THEN toggle_repl(u, found) ELSE u
        fr == IF u1.serial /\ t.tab /\ t.text # <<>>
              THEN exitRawRepl(sleep(write_code(enterRawRepl(Frame0, failAt),
                                                t.text, failAt)), failAt)
              ELSE Frame0
    IN [ui |-> u1, io |-> fr.io, raised |-> fr.raised]

stop(u, found, failAt) ==
    LET u1 == IF ~u.repl THEN toggle_repl(u, found) ELSE u
        fr == IF u1.serial THEN serial_write(Frame0, <<CTRL_C>>, failAt) ELSE Frame0
    IN [ui |-> u1, io |-> fr.io, raised |-> fr.raised]

(***************************************************************************)
(* MicroPythonMode.enterRawRepl, exitRawRepl, run, stop                    *)
(***************************************************************************)
MP_enterRawRepl(fr, failAt) == serial_write(fr, <<CTRL_A>>, failAt)

MP_exitRawRepl(fr, failAt) ==
    serial_write(serial_write(fr, <<CTRL_D>>, failAt), <<CTRL_B>>, failAt)

MP_run(u, t, found, failAt) ==
    LET u1 == IF ~u.repl THEN base_toggle_repl(u, found) ELSE u
        fr == IF u1.serial /\ t.tab /\ t.text # <<>>
              THEN MP_exitRawRepl(write_code(MP_enterRawRepl(Frame0, failAt),
                                             t.text, failAt), failAt)
              ELSE Frame0
    IN [ui |-> u1, io |-> fr.io, raised |-> fr.raised]

\* A variant of MicroPythonMode.stop that obeys force_interrupt.
MP_stop_gated(u, failAt) ==
    LET fr == IF u.serial /\ force_interrupt
              THEN serial_write(Frame0, <<CTRL_C>>, failAt) ELSE Frame0
    IN [ui |-> u, io |-> fr.io, raised |-> fr.raised]

MP_stop(u, failAt) ==
    LET fr == IF u.serial THEN serial_write(Frame0, <<CTRL_C>>, failAt) ELSE Frame0
    IN [ui |-> u, io |-> fr.io, raised |-> fr.raised]

(***************************************************************************)
(* The state after construction.                                           *)
(***************************************************************************)
NoTab == [tab |-> FALSE, text |-> <<>>]

\* A handler that did nothing on view.serial.
Quiet == [io |-> <<>>, raised |-> "none"]

\* MicroPythonMode sets force_interrupt = False; PixelKitMode sets nothing and
\* keeps the default of its base class, under which the interrupt is enabled.
ForceInterruptOf(m) == m # "micropython"

InitUi(m) ==
    [repl |-> FALSE, plotter |-> FALSE, fs |-> 0, serial |-> FALSE,
     flash_thread |-> 0, flash_timer |-> FALSE,
     buttons |-> [b \in ButtonsOf(m) |-> TRUE], status |-> NoStatus]

\* No handler has run yet.
NoCall(u) ==
    [op |-> "none", tab |-> FALSE, text |-> <<>>, found |-> FALSE,
     confirmed |-> FALSE, open |-> FALSE, before |-> u, jobs |-> 0, managers |-> 0,
     io |-> <<>>, raised |-> "none"]

InitMode(m) ==
    /\ mode = m
    /\ force_interrupt = ForceInterruptOf(m)
    /\ ui = InitUi(m)
    /\ call = NoCall(InitUi(m))
    /\ threads = <<>>
    /\ signals = <<>>
    /\ fm = <<>>

(***************************************************************************)
(* The handlers of the two modes' buttons, called with any input, and the  *)
(* buttons: a click reaches the handler only while the button is enabled.  *)
(***************************************************************************)
\* The record of one handler call: the handler, its inputs (the current tab,
\* whether a device was found, the answer to a confirmation dialog), the mode
\* and the number of worker threads when it was called, and what it did on
\* view.serial.
Called(op, t, found, confirmed, r) ==
    [op |-> op, tab |-> t.tab, text |-> t.text, found |-> found,
     confirmed |-> confirmed, open |-> ui.serial, before |-> ui,
     jobs |-> Len(threads), managers |-> Len(fm),
     io |-> r.io, raised |-> r.raised]

CallRun(T, F) ==
    /\ \E t \in T, found \in BOOLEAN, failAt \in F :
         LET r == IF mode = "pixelkit" THEN run(ui, t, found, failAt)
                  ELSE MP_run(ui, t, found, failAt)
         IN /\ ui' = r.ui
            /\ call' = Called("run", t, found, FALSE, r)
    /\ UNCHANGED <<mode, force_interrupt, threads, signals, fm>>

ClickRun(T, F) == ui.buttons["run"] /\ CallRun(T, F)

CallStop(F) ==
    /\ \E found \in BOOLEAN, failAt \in F :
         LET r == IF mode = "pixelkit" THEN stop(ui, found, failAt)
                  ELSE MP_stop(ui, failAt)
         IN /\ ui' = r.ui
            /\ call' = Called("stop", NoTab, found, FALSE, r)
    /\ UNCHANGED <<mode, force_interrupt, threads, signals, fm>>

ClickStop(F) == ui.buttons["stop"] /\ CallStop(F)

CallToggleRepl ==
    /\ \E found \in BOOLEAN :
         /\ ui' = IF mode = "pixelkit" THEN toggle_repl(ui, found)
                  ELSE base_toggle_repl(ui, found)
         /\ call' = Called("toggle_repl", NoTab, found, FALSE, Quiet)
    /\ UNCHANGED <<mode, force_interrupt, threads, signals, fm>>

ClickRepl ==
    /\ IF mode = "pixelkit" THEN ui.buttons["repl"] ELSE ui.buttons["serial"]
    /\ CallToggleRepl

(***************************************************************************)
(* SpecRun: the run/stop protocol of both modes, with every text of the    *)
(* current tab and every failing write.                                    *)
(***************************************************************************)
InitRun == \E m \in Modes : InitMode(m)

NextRun ==
    \/ ClickRun(Tabs, 0..4)
    \/ ClickStop(0..1)
    \/ ClickRepl

SpecRun == InitRun /\ [][NextRun]_vars

(***************************************************************************)
(* DeviceFlasher: one thread per flash job.  pc is the call the thread is  *)
(* about to make or is inside:                                             *)
(*   "download"  download_firmware                                         *)
(*   "erase"     erase_flash, before Popen;  "erasing"  in its read loop   *)
(*   "write"     write_flash, before Popen;  "writing"  in its read loop   *)
(*   "returned"  run() has returned;  "finished"  the thread has ended and *)
(*               QThread has emitted finished                              *)
(* The tool's output (eraseOut, writeOut) and exit status are inputs; the  *)
(* signals the thread has emitted so far are kept in `emitted`.            *)
(***************************************************************************)
\* What the tool may print: erase_flash reads lines, write_flash reads bytes.
\* 0xFF is a byte no UTF-8 text holds: decoding a line with it raises.
EraseLines == {<<69, LF>>, <<255, LF>>}
WriteBytes == {87, CR, LF, 255}
ExitStatus == {"ok", "failed"}

\* bytes.decode('utf-8') succeeds (on the bytes above: all of them are ASCII).
Decodes(bs) == \A i \in 1..Len(bs) : bs[i] < AsciiLimit

DeviceFlasher(port, name) ==
    [pc |-> "download", port |-> port, tmpname |-> name, filename |-> 0, fname |-> 0,
     eraseOut |-> <<>>, eraseExit |-> "none", erase_result |-> <<>>,
     writeOut |-> <<>>, writeExit |-> "none", write_result |-> <<>>, line |-> <<>>,
     error |-> "none", emitted |-> <<>>]

emit(t, sig, arg) == [t EXCEPT !.emitted = Append(@, [sig |-> sig, arg |-> arg])]

\* A variant of run() whose handler reports the exception and lets the
\* thread carry on where it was.
except_resume(t, stage, ex) ==
    emit([t EXCEPT !.error = stage], "on_flash_fail", Msg(ex, <<>>))

\* The except clause of DeviceFlasher.run: an exception raised in `stage` is
\* logged, on_flash_fail is emitted with its text, and run() returns.
except(t, stage, ex) ==
    emit([t EXCEPT !.pc = "returned", !.error = stage], "on_flash_fail", Msg(ex, <<>>))

download_firmware(t, outcome) ==
    IF outcome = "tempfile" THEN except(t, "download", "tempfile error")
    ELSE LET t1 == emit(t, "on_step", Msg("Downloading firmware.", <<>>))
         IN IF outcome = "urlretrieve"
            THEN except(t1, "download", "urlretrieve error")
            ELSE [t1 EXCEPT !.filename = t.tmpname, !.pc = "erase"]

erase_flash_popen(t, ok) ==
    IF ok THEN [t EXCEPT !.pc = "erasing"]
    ELSE except(t, "erase", "erase: OSError")

\* One pass of erase_flash's loop in which readline returned the line `out`.
erase_flash_line(t, out) ==
    LET t1 == [t EXCEPT !.eraseOut = Append(@, out), !.erase_result = @ \o out]
    IN IF Decodes(out)
       THEN emit(t1, "on_step", Msg("Erasing flash", out))
       ELSE except(t1, "erase", "erase: UnicodeDecodeError")

\* readline returned b'' and the tool has exited: erase_flash returns.
erase_flash_eof(t, status) == [t EXCEPT !.eraseExit = status, !.pc = "write"]

\* A variant of run() that calls write_flash() without the file name.
write_flash_popen_unnamed(t, ok) ==
    IF ok THEN [t EXCEPT !.pc = "writing"]
    ELSE except(t, "write", "write: OSError")

write_flash_popen(t, ok) ==
    IF ok THEN [t EXCEPT !.fname = t.filename, !.pc = "writing"]
    ELSE except(t, "write", "write: OSError")

\* One pass of write_flash's loop in which read(1) returned the byte `out`.
write_flash_byte(t, out) ==
    LET t1 == [t EXCEPT !.writeOut = Append(@, out)]
    IN IF out = CR \/ out = LF
       THEN IF Decodes(t.line)
            THEN [emit(t1, "on_step", Msg("Writing flash", t.line))
                     EXCEPT !.write_result = @ \o t.line, !.line = <<>>]
            ELSE except(t1, "write", "write: UnicodeDecodeError")
       ELSE [t1 EXCEPT !.line = Append(@, out)]

\* read(1) returned b'' and the tool has exited: write_flash and run() return.
write_flash_eof(t, status) == [t EXCEPT !.writeExit = status, !.pc = "returned"]

\* The thread ends: QThread emits finished, whatever run() did.
thread_finished(t) == emit([t EXCEPT !.pc = "finished"], "finished", NoStatus)

\* Thread j becomes t2; the signals it emitted on the way are queued for the
\* UI thread (the mode lives in the UI thread: the connections are queued).
Step(j, t2) ==
    LET old == Len(threads[j].emitted)
    IN /\ threads' = [threads EXCEPT ![j] = t2]
       /\ signals' = signals \o [i \in 1..(Len(t2.emitted) - old) |->
                        [sig |-> t2.emitted[old + i].sig, job |-> j,
                         arg |-> t2.emitted[old + i].arg]]
       /\ UNCHANGED <<mode, force_interrupt, ui, call, fm>>

At(j, pc) == j \in 1..Len(threads) /\ threads[j].pc = pc

DownloadOutcomes == {"ok", "tempfile", "urlretrieve"}

Download(j, O) ==
    /\ At(j, "download")
    /\ \E outcome \in O :
         Step(j, download_firmware(threads[j], outcome))

ErasePopen(j, O) ==
    /\ At(j, "erase")
    /\ \E ok \in O : Step(j, erase_flash_popen(threads[j], ok))

EraseLine(j) ==
    /\ At(j, "erasing")
    /\ Len(threads[j].eraseOut) < MaxOut
    /\ \E out \in EraseLines : Step(j, erase_flash_line(threads[j], out))

EraseEOF(j, O) ==
    /\ At(j, "erasing")
    /\ \E status \in O : Step(j, erase_flash_eof(threads[j], status))

WritePopen(j, O) ==
    /\ At(j, "write")
    /\ \E ok \in O : Step(j, write_flash_popen(threads[j], ok))

WriteByte(j) ==
    /\ At(j, "writing")
    /\ Len(threads[j].writeOut) < MaxOut
    /\ \E out \in WriteBytes : Step(j, write_flash_byte(threads[j], out))

WriteEOF(j, O) ==
    /\ At(j, "writing")
    /\ \E status \in O : Step(j, write_flash_eof(threads[j], status))

Finished(j) ==
    /\ At(j, "returned")
    /\ Step(j, thread_finished(threads[j]))

(***************************************************************************)
(* PixelKitMode.flash, flash_finished, flash_failed, on_step               *)
(***************************************************************************)
AllButtons(v) ==
    [mpflash |-> v, mpfiles |-> v, run |-> v, stop |-> v, repl |-> v]

\* A variant of flash_finished that forgets to drop the thread.
flash_finished_keeps_thread(u) ==
    LET u1 == set_buttons(u, AllButtons(TRUE))
        u2 == show_status_message(u1, Msg("Pixel Kit was flashed. Have fun!", <<>>))
    IN [show_message(u2, "Pixel Kit was flashed. Have fun!") EXCEPT !.flash_timer = FALSE]

flash_finished(u) ==
    LET u1 == set_buttons(u, AllButtons(TRUE))
        u2 == show_status_message(u1, Msg("Pixel Kit was flashed. Have fun!", <<>>))
        u3 == show_message(u2, "Pixel Kit was flashed. Have fun!")
    IN [u3 EXCEPT !.flash_thread = 0, !.flash_timer = FALSE]

flash_failed(u, error) ==
    LET u1 == set_buttons(u, AllButtons(TRUE))
        u2 == show_message(u1, "There was a problem flashing the Pixel Kit.")
        u3 == show_status_message(u2, Msg("Pixel Kit could not be flashed.", <<>>))
    IN [u3 EXCEPT !.flash_timer = FALSE, !.flash_thread = 0]

on_step(u, message) == show_status_message(u, message)

\* flash(): `confirmed` is the answer to show_confirmation, `port` whether
\* find_pixelkit found a port, `job` the number of the thread it would start.
\* A variant of flash() that disables the buttons before it asks.
flash_eager(u, confirmed, port, job) ==
    LET u1 == set_buttons(u, AllButtons(FALSE))
    IN IF confirmed
       THEN IF port
            THEN [u1 EXCEPT !.flash_thread = job]
            ELSE flash_failed(u1, Msg("No Pixel Kit was found.", <<>>))
       ELSE u1

flash(u, confirmed, port, job) ==
    IF confirmed
    THEN IF port
         THEN [set_buttons(u, AllButtons(FALSE)) EXCEPT !.flash_thread = job]
         ELSE flash_failed(u, Msg("No Pixel Kit was found.", <<>>))
    ELSE u

ClickFlash ==
    /\ ui.buttons["mpflash"]
    /\ \E confirmed \in BOOLEAN, port \in BOOLEAN :
         /\ (confirmed /\ port) => Len(threads) < MaxJobs
         /\ ui' = flash(ui, confirmed, port, Len(threads) + 1)
         /\ call' = Called("flash", NoTab, port, confirmed, Quiet)
         /\ threads' = IF confirmed /\ port
                       THEN Append(threads, DeviceFlasher("port", Len(threads) + 1))
                       ELSE threads
    /\ UNCHANGED <<mode, force_interrupt, signals, fm>>

\* The slots flash() connects the signals of a DeviceFlasher to.
SlotOf(sig) ==
    CASE sig = "on_step" -> "on_step"
      [] sig = "on_flash_fail" -> "flash_failed"
      [] sig = "finished" -> "flash_finished"

\* The UI thread's event loop delivers the oldest queued signal to its slot.
Deliver ==
    /\ signals # <<>>
    /\ LET s == Head(signals)
       IN /\ ui' = CASE s.sig = "on_step" -> on_step(ui, s.arg)
                     [] s.sig = "on_flash_fail" -> flash_failed(ui, s.arg)
                     [] s.sig = "finished" -> flash_finished(ui)
          /\ call' = Called(SlotOf(s.sig), NoTab, FALSE, FALSE, Quiet)
    /\ signals' = Tail(signals)
    /\ UNCHANGED <<mode, force_interrupt, threads, fm>>

\* The signals of thread j that the UI thread has handled so far.
Delivered(j) ==
    LET queued == Len(SelectSeq(signals, LAMBDA s : s.job = j))
    IN SubSeq(threads[j].emitted, 1, Len(threads[j].emitted) - queued)

(***************************************************************************)
(* SpecFlasher: one flash job with every output of the tool.               *)
(***************************************************************************)
Jobs == 1..MaxJobs

InitFlasher ==
    /\ InitMode("pixelkit")

NextFlasher ==
    \/ /\ threads = <<>>
       /\ ClickFlash
    \/ \E j \in Jobs :
         \/ Download(j, DownloadOutcomes)
         \/ ErasePopen(j, BOOLEAN)
         \/ EraseLine(j)
         \/ EraseEOF(j, ExitStatus)
         \/ WritePopen(j, BOOLEAN)
         \/ WriteByte(j)
         \/ WriteEOF(j, ExitStatus)
         \/ Finished(j)
    \/ Deliver

SpecFlasher == InitFlasher /\ [][NextFlasher]_vars

(***************************************************************************)
(* FileManager.  File names are sequences of characters.  Each operation   *)
(* is one call into pixelfs, which returns or raises; what the operation   *)
(* emitted and what it let escape are the operation's record.              *)
(***************************************************************************)
RemoteNames == {<<"m">>, <<"a">>}
LocalPaths == {<<"a">>, <<"d", "/", "a">>, <<"d", "/">>}
\* What pixelfs.ls() may return: the device's files, in the device's order.
Listings == {<<>>, << <<"m">> >>, << <<"m">>, <<"a">> >>, << <<"a">>, <<"m">> >>}

\* os.path.basename: what follows the last "/" of the path.
RECURSIVE basename(_)
basename(path) ==
    IF path = <<>> THEN <<>>
    ELSE IF path[Len(path)] = "/" THEN <<>>
    ELSE Append(basename(SubSeq(path, 1, Len(path) - 1)), path[Len(path)])

Sig(sig, args) == [sig |-> sig, args |-> args]
Answer(emitted) == [emitted |-> emitted, raised |-> "none"]

\* `res` is what the pixelfs call did: [ok |-> TRUE, files |-> its result] or
\* [ok |-> FALSE, ...] when it raised.
ls(res) ==
    IF res.ok THEN Answer(<<Sig("on_list_files", <<res.files>>)>>)
    ELSE Answer(<<Sig("on_list_fail", <<>>)>>)

get(microbit_filename, local_filename, res) ==
    IF res.ok THEN Answer(<<Sig("on_get_file", <<microbit_filename>>)>>)
    ELSE Answer(<<Sig("on_get_fail", <<microbit_filename>>)>>)

\* A variant of put that reports the local path it was given.
put_plain(local_filename, res) ==
    IF res.ok THEN Answer(<<Sig("on_put_file", <<local_filename>>)>>)
    ELSE Answer(<<Sig("on_put_fail", <<local_filename>>)>>)

put(local_filename, res) ==
    IF res.ok THEN Answer(<<Sig("on_put_file", <<basename(local_filename)>>)>>)
    ELSE Answer(<<Sig("on_put_fail", <<local_filename>>)>>)

delete(microbit_filename, res) ==
    IF res.ok THEN Answer(<<Sig("on_delete_file", <<microbit_filename>>)>>)
    ELSE Answer(<<Sig("on_delete_fail", <<microbit_filename>>)>>)

\* on_start: run when the FileManager's thread starts.
on_start == [op |-> "ls", remote |-> <<>>, local |-> <<>>]

NoOp == [op |-> "none", remote |-> <<>>, local |-> <<>>]

Invocations ==
    {[op |-> "ls", remote |-> <<>>, local |-> <<>>]}
    \cup {[op |-> "get", remote |-> r, local |-> <<"a">>] : r \in RemoteNames}
    \cup {[op |-> "put", remote |-> <<>>, local |-> l] : l \in LocalPaths}
    \cup {[op |-> "delete", remote |-> r, local |-> <<>>] : r \in RemoteNames}

Results == {[ok |-> FALSE, files |-> <<>>]} \cup {[ok |-> TRUE, files |-> f] : f \in Listings}

\* What the pixelfs call of an operation may do: only ls has a result.
ResultsOf(inv) == IF inv.op = "ls" THEN Results ELSE {r \in Results : r.files = <<>>}

Dispatch(inv, res) ==
    CASE inv.op = "ls" -> ls(res)
      [] inv.op = "get" -> get(inv.remote, inv.local, res)
      [] inv.op = "put" -> put(inv.local, res)
      [] inv.op = "delete" -> delete(inv.remote, res)

\* A FileManager moved to a started QThread: the calls queued for it, the one
\* it is executing, and the ones it has answered.
FileManager == [pending |-> <<on_start>>, busy |-> NoOp, answered |-> <<>>]

(***************************************************************************)
(* PixelKitMode.add_fs, remove_fs, toggle_files.  `found` is whether       *)
(* find_device found a port; `id` is the number of the FileManager that    *)
(* add_fs would create.  fs = 0 stands for None.                           *)
(***************************************************************************)
\* A variant of add_fs that goes on after its message.
add_fs_blind(u, found, id) ==
    [(IF ~found THEN show_message(u, "Could not find an attached Pixel Kit.") ELSE u)
        EXCEPT !.fs = id]

add_fs(u, found, id) ==
    IF ~found THEN show_message(u, "Could not find an attached Pixel Kit.")
    ELSE [u EXCEPT !.fs = id]

remove_fs(u) == [u EXCEPT !.fs = 0]

\* A variant of toggle_files that does not look at the REPL and the plotter.
toggle_files_unchecked(u, found, id) ==
    IF u.fs = 0
    THEN LET u1 == add_fs(u, found, id)
         IN IF u1.fs # 0
            THEN set_buttons(u1, [mpflash |-> FALSE, repl |-> FALSE, run |-> FALSE,
                                  stop |-> FALSE, plotter |-> FALSE])
            ELSE u1
    ELSE set_buttons(remove_fs(u), [mpflash |-> TRUE, repl |-> TRUE, run |-> TRUE,
                                    stop |-> TRUE, plotter |-> TRUE])

toggle_files(u, found, id) ==
    IF u.repl \/ u.plotter
    THEN show_message(u, "File system cannot work at the same time as the REPL or plotter.")
    ELSE IF u.fs = 0
         THEN LET u1 == add_fs(u, found, id)
              IN IF u1.fs # 0
                 THEN set_buttons(u1, [mpflash |-> FALSE, repl |-> FALSE, run |-> FALSE,
                                       stop |-> FALSE, plotter |-> FALSE])
                 ELSE u1
         ELSE set_buttons(remove_fs(u), [mpflash |-> TRUE, repl |-> TRUE, run |-> TRUE,
                                         stop |-> TRUE, plotter |-> TRUE])

CallToggleFiles ==
    /\ \E found \in BOOLEAN :
         LET u1 == toggle_files(ui, found, Len(fm) + 1)
             created == u1.fs # 0 /\ ui.fs = 0
         IN /\ created => Len(fm) < MaxFs
            /\ ui' = u1
            /\ call' = Called("toggle_files", NoTab, found, FALSE, Quiet)
            /\ fm' = IF created THEN Append(fm, FileManager) ELSE fm
    /\ UNCHANGED <<mode, force_interrupt, threads, signals>>

ClickFiles == ui.buttons["mpfiles"] /\ CallToggleFiles

\* The file pane asks the FileManager for an operation: the call is queued
\* for the FileManager's thread.
Invoke(I) ==
    /\ ui.fs # 0
    /\ LET m == fm[ui.fs]
       IN Len(m.pending) + Len(m.answered) + (IF m.busy = NoOp THEN 0 ELSE 1) < MaxOps
    /\ \E inv \in I : fm' = [fm EXCEPT ![ui.fs].pending = Append(@, inv)]
    /\ UNCHANGED <<mode, force_interrupt, ui, call, threads, signals>>

\* The FileManager's thread takes the next queued call ...
Begin(k) ==
    /\ k \in 1..Len(fm)
    /\ fm[k].busy = NoOp
    /\ fm[k].pending # <<>>
    /\ fm' = [fm EXCEPT ![k].busy = Head(fm[k].pending), ![k].pending = Tail(@)]
    /\ UNCHANGED <<mode, force_interrupt, ui, call, threads, signals>>

\* ... and the call ends, after its exchange with the device.
End(k, R) ==
    /\ k \in 1..Len(fm)
    /\ fm[k].busy # NoOp
    /\ \E res \in ResultsOf(fm[k].busy) \cap R :
         LET a == Dispatch(fm[k].busy, res)
         IN fm' = [fm EXCEPT ![k].busy = NoOp,
                             ![k].answered = Append(@, [inv |-> fm[k].busy, res |-> res,
                                                       emitted |-> a.emitted,
                                                       raised |-> a.raised])]
    /\ UNCHANGED <<mode, force_interrupt, ui, call, threads, signals>>

(***************************************************************************)
(* SpecFM: the file pane and one FileManager, with every operation.        *)
(***************************************************************************)
Managers == 1..MaxFs

InitFM == InitMode("pixelkit")

NextFM ==
    \/ /\ ui.fs = 0 => fm = <<>>
       /\ ClickFiles
    \/ Invoke(Invocations)
    \/ \E k \in Managers : Begin(k) \/ End(k, Results)

SpecFM == InitFM /\ [][NextFM]_vars

(***************************************************************************)
(* Spec: the Pixel Kit mode as its user drives it (enabled buttons only),  *)
(* with its flash threads and FileManagers.  Here the current tab holds    *)
(* one ASCII text, no serial write fails, a flash job fails in its         *)
(* download or not at all, the flashing tool prints nothing and the        *)
(* device holds at most one file; SpecRun, SpecFlasher and SpecFM vary     *)
(* those.                                                                  *)
(***************************************************************************)
TheTab == {[tab |-> TRUE, text |-> <<112>>]}

Init == InitMode("pixelkit")

Next ==
    \/ ClickRun(TheTab, {0})
    \/ ClickStop({0})
    \/ ClickRepl
    \/ ClickFiles
    \/ ClickFlash
    \/ Deliver
    \/ \E j \in Jobs :
         \/ Download(j, {"ok", "urlretrieve"})
         \/ ErasePopen(j, {TRUE})
         \/ EraseEOF(j, {"ok"})
         \/ WritePopen(j, {TRUE})
         \/ WriteEOF(j, {"ok"})
         \/ Finished(j)
    \/ \E k \in Managers : Begin(k) \/ End(k, {r \in Results : Len(r.files) <= 1})

Spec == Init /\ [][Next]_vars

(***************************************************************************)
(* SpecUi: the handlers of the Pixel Kit mode's buttons and the flash      *)
(* threads, as in Spec; the FileManagers' threads are started and have not *)
(* been scheduled yet (nothing they do reaches the mode's state).          *)
(***************************************************************************)
NextUi ==
    \/ ClickRun(TheTab, {0})
    \/ ClickStop({0})
    \/ ClickRepl
    \/ ClickFiles
    \/ ClickFlash
    \/ Deliver
    \/ \E j \in Jobs :
         \/ Download(j, {"ok", "urlretrieve"})
         \/ ErasePopen(j, {TRUE})
         \/ EraseEOF(j, {"ok"})
         \/ WritePopen(j, {TRUE})
         \/ WriteEOF(j, {"ok"})
         \/ Finished(j)

SpecUi == Init /\ [][NextUi]_vars

(***************************************************************************)
(* PixelKitMode.on_data_flood.  on_data_flood of the base class kills the  *)
(* REPL off ("before the REPL is killed off when a data flood of the       *)
(* plotter is detected"): it removes the REPL and the plotter, which       *)
(* closes the serial link, and shows a warning.                            *)
(***************************************************************************)
base_on_data_flood(u) ==
    show_message([u EXCEPT !.repl = FALSE, !.plotter = FALSE, !.serial = FALSE],
                 "Data Flood Detected!")

on_data_flood(u) == base_on_data_flood(set_buttons(u, [mpfiles |-> TRUE]))

\* The data_flood signal reaches its slot: the device floods the link that
\* the REPL or the plotter has open.
DataFlood ==
    /\ ui.repl \/ ui.plotter
    /\ ui' = on_data_flood(ui)
    /\ call' = Called("on_data_flood", NoTab, FALSE, FALSE, Quiet)
    /\ UNCHANGED <<mode, force_interrupt, threads, signals, fm>>

(***************************************************************************)
(* SpecFlood: SpecUi with a device that may flood the serial link.         *)
(***************************************************************************)
NextFlood ==
    \/ NextUi
    \/ DataFlood

SpecFlood == Init /\ [][NextFlood]_vars

(***************************************************************************)
(* SpecCalls: run, stop, toggle_repl and toggle_files of the Pixel Kit     *)
(* mode called in any order, whatever the state of their buttons, with     *)
(* every text of the current tab and a first write that may fail.          *)
(***************************************************************************)
NextCalls ==
    \/ CallRun(Tabs, 0..1)
    \/ CallStop(0..1)
    \/ CallToggleRepl
    \/ CallToggleFiles

SpecCalls == Init /\ [][NextCalls]_vars

(***************************************************************************)
(* Properties of one run() or stop() call, stated on the record of the     *)
(* last call.                                                              *)
(***************************************************************************)
\* The data of the writes of an event sequence, in order.
Writes(io) ==
    LET w == SelectSeq(io, LAMBDA e : e.k = "write")
    IN [i \in 1..Len(w) |-> w[i].data]

RunOnOpenLink == call.op = "run" /\ call.open /\ call.tab /\ call.text # <<>>

\* C1: a run() of a non-empty ASCII text S on an open serial connection, none
\* of whose writes fails, performs exactly four writes, in this order: 0x01,
\* the bytes of S as one write, 0x04, 0x02 (in both modes).
C1_RunWritesFour ==
    (RunOnOpenLink /\ IsAscii(call.text) /\ call.raised = "none")
        => Writes(call.io) = << <<CTRL_A>>, call.text, <<CTRL_D>>, <<CTRL_B>> >>

C1_Witness ==
    /\ RunOnOpenLink /\ call.raised = "none"
    /\ call.text = <<112, 112>>
    /\ Len(Writes(call.io)) = 4

\* C2: a run() of a text with a non-ASCII character on an open serial
\* connection fails with the encoding error and has written nothing, not even
\* the enter-raw byte (a run ended by a failing write is not the claim's case).
C2_NoWriteBeforeEncodingError ==
    (RunOnOpenLink /\ ~IsAscii(call.text) /\ call.raised # "IOError")
        => (call.raised = "UnicodeEncodeError" /\ NumWrites(call.io) = 0)

RunEnteredRaw ==
    /\ call.op = "run"
    /\ Writes(call.io) # <<>>
    /\ Head(Writes(call.io)) = <<CTRL_A>>

\* The writes of an event sequence end with the exit sequence 0x04, 0x02.
ExitIssued(io) ==
    LET w == Writes(io)
    IN Len(w) >= 2 /\ w[Len(w) - 1] = <<CTRL_D>> /\ w[Len(w)] = <<CTRL_B>>

\* C11: a run() that has written the enter-raw byte 0x01 lets no exception
\* escape (a failure of the encoding or of a serial write is caught and
\* reported), and when the encoding of the text failed (the link still
\* works) it has issued the exit sequence 0x04, 0x02 before it ends.
C11_FailedRunLeavesRawMode ==
    RunEnteredRaw =>
        /\ call.raised = "none"
        /\ call.raised = "UnicodeEncodeError" => ExitIssued(call.io)

\* The events of a call up to its last write (a sleep after the last write
\* separates nothing).
UpToLastWrite(io) ==
    LET w == {i \in 1..Len(io) : io[i].k = "write"}
    IN IF w = {} THEN <<>>
       ELSE SubSeq(io, 1, CHOOSE i \in w : \A k \in w : k <= i)

\* C17: in both modes the events of a run() of a non-empty ASCII text S, none
\* of whose writes fails, are: write 0x01, settle, write S, write 0x04,
\* settle, write 0x02, with no settling delay between the write of S and the
\* write of 0x04.
C17_SettleBetweenWrites ==
    (call.op = "run" /\ call.raised = "none" /\ Writes(call.io) # <<>>)
        => UpToLastWrite(call.io) =
               <<WriteEv(<<CTRL_A>>), SleepEv, WriteEv(call.text),
                 WriteEv(<<CTRL_D>>), SleepEv, WriteEv(<<CTRL_B>>)>>

(***************************************************************************)
(* Properties of a flash job, stated on its thread's record.               *)
(***************************************************************************)
Started == 1..Len(threads)

\* The messages of the signals `sig` thread t has emitted, in order.
Emitted(t, sig) ==
    LET e == SelectSeq(t.emitted, LAMBDA x : x.sig = sig)
    IN [i \in 1..Len(e) |-> e[i].arg]

\* The tool's lines quoted by the progress events of one stage, in order.
StepsOf(t, stage) ==
    LET e == SelectSeq(Emitted(t, "on_step"), LAMBDA m : m.stage = stage)
    IN [i \in 1..Len(e) |-> e[i].text]

IsPrefix(a, b) == Len(a) <= Len(b) /\ a = SubSeq(b, 1, Len(a))

\* The runs of bytes between the CR and LF bytes of bs that a CR or LF ends.
RECURSIVE EndedLines(_, _)
EndedLines(bs, line) ==
    IF bs = <<>> THEN <<>>
    ELSE IF Head(bs) \in {CR, LF} THEN <<line>> \o EndedLines(Tail(bs), <<>>)
    ELSE EndedLines(Tail(bs), Append(line, Head(bs)))

RunOver(t) == t.pc \in {"returned", "finished"}
WriteStarted(t) == t.pc = "writing" \/ t.fname # 0 \/ t.error = "write"
ErrorsOf(stage) ==
    CASE stage = "download" -> {"tempfile error", "urlretrieve error"}
      [] stage = "erase" -> {"erase: OSError", "erase: UnicodeDecodeError"}
      [] stage = "write" -> {"write: OSError", "write: UnicodeDecodeError"}
      [] OTHER -> {}

FailedWith(t, stage) ==
    /\ Len(Emitted(t, "on_flash_fail")) = 1
    /\ Emitted(t, "on_flash_fail")[1].stage \in ErrorsOf(stage)

\* C5: a job whose erase stage failed (the tool exited with a failure, or
\* erase_flash raised) never starts the write stage and ends with
\* on_flash_fail carrying the erase-stage error; a job whose write stage
\* failed ends with on_flash_fail carrying the write-stage error.
C5_StageFailureFailsJob ==
    \A j \in Started :
        LET t == threads[j]
        IN /\ (t.eraseExit = "failed" \/ t.error = "erase")
                => (~WriteStarted(t) /\ (RunOver(t) => FailedWith(t, "erase")))
           /\ (t.writeExit = "failed" \/ t.error = "write")
                => (RunOver(t) => FailedWith(t, "write"))

\* C8: the progress events of the erase and of the write stage quote the
\* tool's output lines in the order the tool printed them, and a stage that
\* has completed and in which the tool printed anything has emitted at least
\* one progress event.
C8_ProgressForEveryOutput ==
    \A j \in Started :
        LET t == threads[j]
            erased == StepsOf(t, "Erasing flash")
            written == StepsOf(t, "Writing flash")
        IN /\ IsPrefix(erased, t.eraseOut)
           /\ IsPrefix(written, EndedLines(t.writeOut, <<>>))
           /\ (t.eraseExit # "none" /\ t.eraseOut # <<>>) => erased # <<>>
           /\ (t.writeExit # "none" /\ t.writeOut # <<>>) => written # <<>>

\* C10: an exception raised in download, erase or write is caught in run():
\* the thread's run() returns, no later stage has run, and on_flash_fail was
\* emitted exactly once, with the exception's message, as the last signal of
\* run(); a job that caught nothing emits no on_flash_fail.
C10_ExceptionCaughtOnce ==
    \A j \in Started :
        LET t == threads[j]
            fails == Emitted(t, "on_flash_fail")
            e == SelectSeq(t.emitted, LAMBDA x : x.sig # "finished")
        IN /\ t.error = "none" => fails = <<>>
           /\ t.error # "none" =>
                /\ RunOver(t)
                /\ Len(fails) = 1
                /\ fails[1].stage \in ErrorsOf(t.error)
                /\ e[Len(e)].sig = "on_flash_fail"
           /\ t.error = "download" =>
                (t.filename = 0 /\ t.eraseOut = <<>> /\ t.eraseExit = "none")
           /\ t.error \in {"download", "erase"} =>
                (t.fname = 0 /\ t.writeOut = <<>> /\ t.writeExit = "none")

C10_Witness ==
    \E j \in Started :
        /\ threads[j].error = "download"
        /\ threads[j].pc = "finished"
        /\ Len(Delivered(j)) = Len(threads[j].emitted)

\* The moves of a thread from one call to the next: download, then erase,
\* then write, each of them at most once; an exception ends run().
StageOrder ==
    {<<"download", "erase">>, <<"erase", "erasing">>, <<"erasing", "write">>,
     <<"write", "writing">>, <<"writing", "returned">>, <<"returned", "finished">>}
    \cup {<<pc, "returned">> : pc \in {"download", "erase", "erasing", "write"}}

EraseStarted(t) ==
    t.pc = "erasing" \/ t.eraseOut # <<>> \/ t.eraseExit # "none" \/ t.error = "erase"

StagesSoFar ==
    \A j \in Started :
        LET t == threads[j]
        IN /\ EraseStarted(t) => t.filename # 0
           /\ WriteStarted(t) => (t.filename # 0 /\ t.eraseExit # "none")
           /\ (t.pc = "writing" \/ t.writeExit # "none")
                => (t.fname = t.filename /\ t.filename = t.tmpname)

\* C14: in one flash job erase starts only after the download has returned a
\* file name, write starts only after erase has returned and is given the
\* file name that the download of the same job returned, and the thread
\* moves through download, erase, write in this order, never back.
C14_StagesInOrder ==
    /\ []StagesSoFar
    /\ [][\A j \in Started :
            threads'[j].pc # threads[j].pc
                => <<threads[j].pc, threads'[j].pc>> \in StageOrder]_vars

\* A job that went through its three stages, the tool printing in each.
C14_Witness ==
    \E j \in Started :
        /\ threads[j].pc = "finished" /\ threads[j].error = "none"
        /\ threads[j].eraseOut # <<>> /\ threads[j].writeOut # <<>>
        /\ threads[j].fname = j

\* The progress events of the download stage that thread t has emitted.
DownloadSteps(t) ==
    SelectSeq(Emitted(t, "on_step"),
              LAMBDA m : m.stage \notin {"Erasing flash", "Writing flash"})

FetchFailed(t) ==
    \E i \in 1..Len(t.emitted) :
        t.emitted[i] = [sig |-> "on_flash_fail", arg |-> Msg("urlretrieve error", <<>>)]

\* C15: the download stage emits one progress event before the fetch begins
\* and one after it has completed: a download that has returned its file
\* name has emitted two, a download whose fetch failed has emitted one.
C15_DownloadBracketsFetch ==
    \A j \in Started :
        LET t == threads[j]
        IN /\ FetchFailed(t) => Len(DownloadSteps(t)) = 1
           /\ t.filename # 0 => Len(DownloadSteps(t)) = 2

\* The maximal runs of bytes other than CR and LF in bs, in order, the last
\* one included whether a CR or LF follows it or not.
RECURSIVE MaximalRuns(_, _)
MaximalRuns(bs, line) ==
    LET last == IF line = <<>> THEN <<>> ELSE <<line>>
    IN IF bs = <<>> THEN last
       ELSE IF Head(bs) \in {CR, LF} THEN last \o MaximalRuns(Tail(bs), <<>>)
       ELSE MaximalRuns(Tail(bs), Append(line, Head(bs)))

RECURSIVE Flatten(_)
Flatten(lines) == IF lines = <<>> THEN <<>> ELSE Head(lines) \o Flatten(Tail(lines))

\* C16: when write_flash has returned, the progress events of the write
\* stage carry, in order, exactly the maximal runs of non-CR/LF bytes of the
\* tool's output (an event with an empty line, emitted between a CR and the
\* LF after it, is not counted), the final run included when no CR or LF
\* follows it, and write_flash returned the concatenation of the lines.
C16_EveryLineForwarded ==
    \A j \in Started :
        LET t == threads[j]
            written == StepsOf(t, "Writing flash")
        IN (t.writeExit # "none" /\ t.error = "none") =>
               /\ SelectSeq(written, LAMBDA l : l # <<>>) = MaximalRuns(t.writeOut, <<>>)
               /\ t.write_result = Flatten(written)

(***************************************************************************)
(* Properties of the mode with its worker threads.                         *)
(***************************************************************************)
\* The threads that have been started and have not ended yet.
Running == {j \in Started : threads[j].pc # "finished"}

\* The terminal signals of thread j that the UI thread has handled: an
\* on_flash_fail runs flash_failed, a finished runs flash_finished.
Notified(j) == SelectSeq(Delivered(j), LAMBDA x : x.sig \in {"on_flash_fail", "finished"})

AllDelivered(j) == Len(Delivered(j)) = Len(threads[j].emitted)

\* C3: every flash job that was started causes exactly one terminal handler
\* to run, flash_finished or flash_failed, never both and never neither, and
\* a job whose thread caught an exception never causes flash_finished to run.
C3_OneTerminalNotification ==
    \A j \in Started :
        /\ Len(Notified(j)) <= 1
        /\ (threads[j].pc = "finished" /\ AllDelivered(j)) => Len(Notified(j)) = 1
        /\ threads[j].error # "none" =>
             \A i \in 1..Len(Notified(j)) : Notified(j)[i].sig # "finished"

\* The idle state of the mode: no flash thread, no flash timer, and the run,
\* stop, files, REPL and flash buttons enabled.
Idle(u) ==
    /\ u.flash_thread = 0
    /\ ~u.flash_timer
    /\ \A b \in {"run", "stop", "mpfiles", "repl", "mpflash"} : u.buttons[b]

NoDeviceFlash == call.op = "flash" /\ call.confirmed /\ ~call.found

\* C12: when the UI thread has just handled the terminal signal of a flash
\* job (on_flash_fail, or the finished that is the last signal of every job),
\* and when flash() has just failed because no device was found, the mode is
\* idle: a new flash request is accepted.
C12_IdleAfterFlash ==
    (call.op \in {"flash_finished", "flash_failed"} \/ NoDeviceFlash) => Idle(ui)

\* A job that succeeded has ended and its last signal has just been handled.
C12_Witness ==
    /\ call.op = "flash_finished"
    /\ call.before.flash_thread # 0
    /\ ~call.before.buttons["mpflash"]
    /\ \E j \in Started :
         /\ threads[j].pc = "finished" /\ threads[j].error = "none"
         /\ AllDelivered(j)
    /\ Idle(ui)

\* C13: a flash request whose confirmation was cancelled leaves the whole
\* state of the mode unchanged and starts no worker; a flash request that
\* started a DeviceFlasher (the only place a download, erase or write
\* happens) or changed a button was confirmed.
C13_NothingWithoutConfirmation ==
    call.op = "flash" =>
        /\ ~call.confirmed =>
              (ui = call.before /\ Len(threads) = call.jobs /\ Len(fm) = call.managers)
        /\ (Len(threads) # call.jobs \/ ui.buttons # call.before.buttons)
              => call.confirmed

\* A flash request cancelled after an earlier job has run.
C13_Witness ==
    /\ call.op = "flash" /\ ~call.confirmed
    /\ Len(threads) = 1 /\ threads[1].pc = "finished"
    /\ ui.status # NoStatus
    /\ ui = call.before

\* The file pane, the REPL and the buttons of u2 are those of u1.
SamePanes(u1, u2) ==
    u2.fs = u1.fs /\ u2.repl = u1.repl /\ u2.buttons = u1.buttons

\* C18: after any sequence of run, stop, toggle_repl and toggle_files calls
\* the file pane and the REPL are never both active; a toggle_repl called
\* with the file pane open and a toggle_files called with the REPL active
\* have left the file pane, the REPL and every button as they were and have
\* created no FileManager; and toggle_files called in the same state with the
\* plotter active would leave them as they are.
C18_FilesExcludeRepl ==
    /\ ~(ui.fs # 0 /\ ui.repl)
    /\ (call.op = "toggle_repl" /\ call.before.fs # 0) => SamePanes(call.before, ui)
    /\ (call.op = "toggle_files" /\ (call.before.repl \/ call.before.plotter))
          => (SamePanes(call.before, ui) /\ Len(fm) = call.managers)
    /\ \A found \in BOOLEAN :
          LET u == [ui EXCEPT !.plotter = TRUE]
          IN SamePanes(u, toggle_files(u, found, Len(fm) + 1))

\* toggle_files was called with the REPL open, after a file pane had been
\* opened and closed.
C18_Witness ==
    /\ call.op = "toggle_files"
    /\ call.before.repl /\ ui.repl /\ ui.fs = 0
    /\ Len(fm) >= 1

\* C19: a toggle_files that found no device has left the file pane closed,
\* created no FileManager and changed no button; a confirmed flash() that
\* found no device has started no thread, has disabled no button, and has
\* reported the failure as flash_failed does (its status message, no flash
\* thread).
C19_NoDeviceNoSession ==
    /\ (call.op = "toggle_files" /\ ~call.found /\ call.before.fs = 0)
          => /\ ui.fs = 0
             /\ Len(fm) = call.managers
             /\ ui.buttons = call.before.buttons
    /\ NoDeviceFlash
          => /\ Len(threads) = call.jobs
             /\ \A b \in DOMAIN ui.buttons : call.before.buttons[b] => ui.buttons[b]
             /\ ui.status = Msg("Pixel Kit could not be flashed.", <<>>)
             /\ ui.flash_thread = 0

\* No device is attached: a flash was confirmed and failed, then the Files
\* button was clicked.
C19_Witness ==
    /\ call.op = "toggle_files" /\ ~call.found /\ call.before.fs = 0
    /\ threads = <<>> /\ fm = <<>>
    /\ ui.status = Msg("Pixel Kit could not be flashed.", <<>>)
    /\ ui.fs = 0

C4_OneFlashWorker == Cardinality(Running) <= 1

\* C20: while a DeviceFlasher thread is running (started and not yet ended)
\* the run, stop, files, REPL and flash buttons are all disabled.
C20_DisabledWhileFlashing ==
    Running # {} =>
        \A b \in {"run", "stop", "mpfiles", "repl", "mpflash"} : ~ui.buttons[b]

\* Nothing holds the connection: no REPL, no plotter, no file pane, and no
\* flash job (no flash thread kept or running, no signal of one still queued).
NothingHoldsLink ==
    /\ ~ui.repl /\ ~ui.plotter /\ ui.fs = 0
    /\ ui.flash_thread = 0 /\ Running = {} /\ signals = <<>>

ReplOwns == ui.repl
FileManagerOwns == \E k \in 1..Len(fm) : fm[k].busy # NoOp
FlasherOwns == Running # {}

C6_SingleOwner ==
    /\ ~(ReplOwns /\ FileManagerOwns)
    /\ ~(ReplOwns /\ FlasherOwns)
    /\ ~(FileManagerOwns /\ FlasherOwns)

(***************************************************************************)
(* Properties of the FileManager's operations.                             *)
(***************************************************************************)
\* What follows the last "/" of a path.
LastPart(path) ==
    LET slashes == {i \in 1..Len(path) : path[i] = "/"}
        last == IF slashes = {} THEN 0 ELSE CHOOSE i \in slashes : \A k \in slashes : k <= i
    IN SubSeq(path, last + 1, Len(path))

\* The one signal an operation is to emit.
Expected(inv, res) ==
    CASE inv.op = "ls" ->
           IF res.ok THEN Sig("on_list_files", <<res.files>>) ELSE Sig("on_list_fail", <<>>)
      [] inv.op = "get" ->
           Sig(IF res.ok THEN "on_get_file" ELSE "on_get_fail", <<inv.remote>>)
      [] inv.op = "put" ->
           IF res.ok THEN Sig("on_put_file", <<LastPart(inv.local)>>)
           ELSE Sig("on_put_fail", <<inv.local>>)
      [] inv.op = "delete" ->
           Sig(IF res.ok THEN "on_delete_file" ELSE "on_delete_fail", <<inv.remote>>)

\* C9: every operation a FileManager has answered, whatever was answered
\* before it, raised nothing and emitted exactly one signal: on success the
\* success signal with the tuple of file names in the device's order (ls),
\* the remote name (get, delete) or the base name of the local path (put);
\* on an exception the failure signal with the remote name (get, delete),
\* the full local path (put) or no payload (ls).
C9_OneSignalPerOperation ==
    \A k \in 1..Len(fm) :
        \A i \in 1..Len(fm[k].answered) :
            LET a == fm[k].answered[i]
            IN /\ a.raised = "none"
               /\ a.emitted = <<Expected(a.inv, a.res)>>

C9_Witness ==
    \E k \in 1..Len(fm) :
        /\ Len(fm[k].answered) = 2
        /\ ~fm[k].answered[1].res.ok
        /\ fm[k].answered[2].inv = [op |-> "put", remote |-> <<>>, local |-> <<"d", "/", "a">>]
        /\ fm[k].answered[2].emitted = <<Sig("on_put_file", << <<"a">> >>)>>

====
